---- MODULE Spec2Model ----
(***************************************************************************)
(* Webhook action dispatcher of the server dashboard (server/webhooks.ts,  *)
(* the webhook router and server/db.ts), with the servers.* routes that    *)
(* write the same tables.  One action per route handler; a handler is one  *)
(* atomic step made of the persistence statements it awaits in order.      *)
(* With it, the remote telemetry sessions (ServerConnection) and their     *)
(* pool (ServerConnectionPool): a call is an action, and each await on the *)
(* transport is a further action, so that calls overlap.                   *)
(***************************************************************************)
EXTENDS Integers, Sequences, FiniteSets, TLC

\* Number of route invocations explored from each seeded database.
MaxCalls == 1

\* Number of session and pool calls explored from each seeded pool.
MaxOps == 2

\* Number of telemetry calls explored for each output of the host.
MaxRuns == 1

\* Number of status changes suspended between their ownership check and
\* their update at one time.
MaxOverlap == 1

VARIABLES
  servers,        \* table servers: sequence of rows in insertion order
  serverMetrics,  \* table serverMetrics
  alerts,         \* table alerts
  webhookLogs,    \* table webhookLogs
  apiKeys,        \* table apiKeys
  nextServerId,   \* AUTO_INCREMENT counter of servers.id
  sqlStrict,      \* sql_mode of the MySQL server: strict or not
  now,            \* wall clock, in the resolution of a TIMESTAMP column
  calls,          \* number of route invocations so far
  pre,            \* the tables as they were when the last invocation began
  last,           \* the last invocation: its input and what it returned
  inflight,       \* status changes suspended at `await db.updateServer`
  connected,      \* ServerConnection.connected of each session
  ssh,            \* the transport of each session: open, and disposals so far
  connections,    \* ServerConnectionPool.connections, in insertion order
  pending,        \* the session and pool calls suspended at an await
  ops,            \* number of session and pool calls so far
  added,          \* the sessions addConnection has ever been given
  lastOp          \* the last session or pool call that returned or threw

dbVars == <<servers, serverMetrics, alerts, webhookLogs, apiKeys, nextServerId,
            sqlStrict, now, calls, pre, last, inflight>>

connVars == <<connected, ssh, connections, pending, ops, added, lastOp>>

vars == <<servers, serverMetrics, alerts, webhookLogs, apiKeys, nextServerId,
          sqlStrict, now, calls, pre, last, inflight, connected, ssh,
          connections,
          pending, ops, added, lastOp>>

----------------------------------------------------------------------------
(* JavaScript values carried by the untyped `data` record of a payload.    *)

Undef == [t |-> "undef", n |-> 0, s |-> ""]
Num(x) == [t |-> "num", n |-> x, s |-> ""]
Str(x) == [t |-> "str", n |-> 0, s |-> x]

\* The strings of the model that JavaScript's ToNumber reads as a number.
NumericStrings == ("50" :> 50) @@ ("95" :> 95) @@ ("" :> 0)

\* The number NaN.
NaN == [t |-> "nan", n |-> 0, s |-> ""]

\* !v
Falsy(v) ==
  \/ v.t = "undef"
  \/ v.t = "nan"
  \/ v.t = "str" /\ v.s = ""
  \/ v.t = "num" /\ v.n = 0

\* ToNumber(v) is NaN
IsNaN(v) ==
  \/ v.t = "undef"
  \/ v.t = "nan"
  \/ v.t = "str" /\ v.s \notin DOMAIN NumericStrings

ToNumber(v) ==
  IF v.t = "num" THEN v.n
  ELSE IF v.t = "str" /\ v.s \in DOMAIN NumericStrings THEN NumericStrings[v.s]
  ELSE 0

\* v < k and v > k for a number k: false whenever ToNumber(v) is NaN
JsLt(v, k) == ~IsNaN(v) /\ ToNumber(v) < k
JsGt(v, k) == ~IsNaN(v) /\ ToNumber(v) > k

\* v.toFixed exists only on numbers
HasToFixed(v) == v.t = "num"

----------------------------------------------------------------------------
(* Persistence layer (server/db.ts).  Every function threads the tables d  *)
(* and the count n of SQL statements issued so far by the invocation; a    *)
(* fault plan f names the statements that throw.                           *)

Users == {1, 2}

NoFault == [at |-> 0, outage |-> FALSE]

\* Statement number k throws: the one the plan names, and under an outage
\* every later one too.
Fails(k, f) == f.at # 0 /\ (k = f.at \/ (f.outage /\ k > f.at))

NoServer == [id |-> 0, name |-> "", hostname |-> "", ipAddress |-> "",
             status |-> "", createdBy |-> 0, lastSeen |-> 0, createdAt |-> 0]
NoMetric == [id |-> 0, serverId |-> 0, cpuUsage |-> 0, ramUsage |-> 0,
             ramUsagePercent |-> 0, diskUsage |-> 0, diskUsagePercent |-> 0,
             networkIn |-> 0, networkOut |-> 0, activeConnections |-> 0,
             timestamp |-> 0]
NoKey == [id |-> 0, userId |-> 0, key |-> "", active |-> FALSE]

NoRet == [server |-> NoServer, metric |-> NoMetric, alerts |-> <<>>]

Ok(d, n, val) == [d |-> d, n |-> n, err |-> "", val |-> val]
Throw(d, n, e) == [d |-> d, n |-> n, err |-> e, val |-> NoRet]

\* In the handlers below, Try(call, LAMBDA x : rest) reads
\* `const x = await call; rest`: a call that throws ends the function
\* (`catch (error) { throw error }`), keeping the rows written so far.

SeqMax(S) == CHOOSE x \in S : \A y \in S : y <= x
SeqMin(S) == CHOOSE x \in S : \A y \in S : x <= y

\* `ORDER BY col DESC LIMIT 1` over rows: the rows that tie on the largest
\* value are returned in an order SQL leaves open; tb settles it.
Latest(rows, col, tb) ==
  LET top == SeqMax({rows[i][col] : i \in 1..Len(rows)})
      ties == {rows[i].id : i \in {j \in 1..Len(rows) : rows[j][col] = top}}
      pick == IF tb = "oldest" THEN SeqMin(ties) ELSE SeqMax(ties)
  IN  CHOOSE r \in {rows[i] : i \in 1..Len(rows)} : r.id = pick

getServerById(d, n, f, id) ==
  IF Fails(n + 1, f) THEN Throw(d, n + 1, "DB_ERROR")
  ELSE LET rows == SelectSeq(d.servers, LAMBDA r : r.id = id)
       IN  Ok(d, n + 1, IF rows = <<>> THEN NoServer ELSE rows[1])

createServer(d, n, f, tb, server, clock) ==
  IF Fails(n + 1, f) THEN Throw(d, n + 1, "DB_ERROR")
  ELSE
    LET row == [server EXCEPT !.id = d.nextServerId, !.createdAt = clock]
        d1 == [d EXCEPT !.servers = Append(@, row), !.nextServerId = @ + 1]
        mine == SelectSeq(d1.servers, LAMBDA r : r.createdBy = server.createdBy)
    IN  IF Fails(n + 2, f) THEN Throw(d1, n + 2, "DB_ERROR")
        ELSE Ok(d1, n + 2, Latest(mine, "createdAt", tb))

updateServer(d, n, f, id, updates) ==
  IF Fails(n + 1, f) THEN Throw(d, n + 1, "DB_ERROR")
  ELSE
    LET upd(r) == [k \in DOMAIN r |->
                     IF k \in DOMAIN updates THEN updates[k] ELSE r[k]]
        d1 == [d EXCEPT !.servers =
                 [i \in 1..Len(@) |-> IF @[i].id = id THEN upd(@[i]) ELSE @[i]]]
    IN  getServerById(d1, n + 1, f, id)

deleteServer(d, n, f, id) ==
  IF Fails(n + 1, f) THEN Throw(d, n + 1, "DB_ERROR")
  ELSE Ok([d EXCEPT !.servers = SelectSeq(@, LAMBDA r : r.id # id)],
          n + 1, NoServer)

\* What MySQL stores for JavaScript value v in a NOT NULL numeric column
\* that has no DEFAULT.  An absent value is sent as DEFAULT; in strict mode
\* that, and a string that is not a number, is an error, otherwise the
\* implicit default 0 is stored.
SqlAccepts(v, strict) ==
  \/ v.t = "num"
  \/ v.t = "str" /\ v.s \in DOMAIN NumericStrings /\ v.s # ""
  \/ ~strict

SqlNumber(v) == IF IsNaN(v) THEN 0 ELSE ToNumber(v)

\* The same for a column declared with DEFAULT 0.
SqlDefault0(v) == IF v.t = "undef" THEN 0 ELSE SqlNumber(v)

MetricRequired == {"cpuUsage", "ramUsage", "ramUsagePercent", "diskUsage",
                   "diskUsagePercent"}

createMetric(d, n, f, tb, strict, serverId, metric, clock) ==
  IF Fails(n + 1, f) \/ \E c \in MetricRequired : ~SqlAccepts(metric[c], strict)
  THEN Throw(d, n + 1, "DB_ERROR")
  ELSE
    LET row == [id |-> Len(d.serverMetrics) + 1,
                serverId |-> serverId,
                cpuUsage |-> SqlNumber(metric.cpuUsage),
                ramUsage |-> SqlNumber(metric.ramUsage),
                ramUsagePercent |-> SqlNumber(metric.ramUsagePercent),
                diskUsage |-> SqlNumber(metric.diskUsage),
                diskUsagePercent |-> SqlNumber(metric.diskUsagePercent),
                networkIn |-> SqlDefault0(metric.networkIn),
                networkOut |-> SqlDefault0(metric.networkOut),
                activeConnections |-> SqlDefault0(metric.activeConnections),
                timestamp |-> clock]
        d1 == [d EXCEPT !.serverMetrics = Append(@, row)]
        mine == SelectSeq(d1.serverMetrics, LAMBDA r : r.serverId = serverId)
    IN  IF Fails(n + 2, f) THEN Throw(d1, n + 2, "DB_ERROR")
        ELSE Ok(d1, n + 2, Latest(mine, "timestamp", tb))

\* The alerts table declares alertConfigId, metricType, currentValue and
\* threshold NOT NULL without DEFAULT.  A row that leaves them out is
\* rejected in strict mode; otherwise they take the implicit defaults: 0,
\* and the first member of the enum ('cpu').
AlertRequired == {"alertConfigId", "metricType", "currentValue", "threshold"}

createAlert(d, n, f, tb, strict, alert, clock) ==
  IF Fails(n + 1, f) \/ (strict /\ \E c \in AlertRequired : c \notin DOMAIN alert)
  THEN Throw(d, n + 1, "DB_ERROR")
  ELSE
    LET col(c, dflt) == IF c \in DOMAIN alert THEN alert[c] ELSE dflt
        row == [id |-> Len(d.alerts) + 1,
                serverId |-> alert.serverId,
                alertConfigId |-> col("alertConfigId", 0),
                metricType |-> col("metricType", "cpu"),
                currentValue |-> col("currentValue", 0),
                threshold |-> col("threshold", 0),
                severity |-> alert.severity,
                message |-> alert.message,
                acknowledged |-> alert.acknowledged,
                createdAt |-> clock]
        d1 == [d EXCEPT !.alerts = Append(@, row)]
        mine == SelectSeq(d1.alerts, LAMBDA r : r.serverId = alert.serverId)
    IN  IF Fails(n + 2, f) THEN Throw(d1, n + 2, "DB_ERROR")
        ELSE Ok(d1, n + 2, Latest(mine, "createdAt", tb))

getApiKeyByKey(d, n, f, key) ==
  IF Fails(n + 1, f) THEN Throw(d, n + 1, "DB_ERROR")
  ELSE LET rows == SelectSeq(d.apiKeys, LAMBDA r : r.key = key)
       IN  Ok(d, n + 1, IF rows = <<>> THEN NoKey ELSE rows[1])

getApiKeyById(d, n, f, id) ==
  IF Fails(n + 1, f) THEN Throw(d, n + 1, "DB_ERROR")
  ELSE LET rows == SelectSeq(d.apiKeys, LAMBDA r : r.id = id)
       IN  Ok(d, n + 1, IF rows = <<>> THEN NoKey ELSE rows[1])

\* db.insert(apiKeys) then the read-back by key.  apiKeys.key is UNIQUE: a
\* key string that is already stored is rejected.
createApiKey(d, n, f, apiKey) ==
  IF Fails(n + 1, f) \/ \E i \in 1..Len(d.apiKeys) : d.apiKeys[i].key = apiKey.key
  THEN Throw(d, n + 1, "DB_ERROR")
  ELSE
    LET row == [id |-> Len(d.apiKeys) + 1, userId |-> apiKey.userId,
                key |-> apiKey.key, active |-> apiKey.active]
        d1 == [d EXCEPT !.apiKeys = Append(@, row)]
    IN  getApiKeyByKey(d1, n + 1, f, apiKey.key)

\* An update that flips the flag instead of storing the value given.
updateApiKey_Toggles(d, n, f, id, active) ==
  IF Fails(n + 1, f) THEN Throw(d, n + 1, "DB_ERROR")
  ELSE
    LET d1 == [d EXCEPT !.apiKeys =
                 [i \in 1..Len(@) |->
                    IF @[i].id = id THEN [@[i] EXCEPT !.active = ~@]
                    ELSE @[i]]]
    IN  getApiKeyById(d1, n + 1, f, id)

updateApiKey(d, n, f, id, active) ==
  IF Fails(n + 1, f) THEN Throw(d, n + 1, "DB_ERROR")
  ELSE
    LET d1 == [d EXCEPT !.apiKeys =
                 [i \in 1..Len(@) |->
                    IF @[i].id = id THEN [@[i] EXCEPT !.active = active]
                    ELSE @[i]]]
    IN  getApiKeyById(d1, n + 1, f, id)

\* The id of the user row, 0 when there is none.
getUserById(d, n, f, id) ==
  IF Fails(n + 1, f) THEN Throw(d, n + 1, "DB_ERROR")
  ELSE Ok(d, n + 1, IF id \in Users THEN id ELSE 0)

createWebhookLog(d, n, f, log) ==
  IF Fails(n + 1, f) THEN Throw(d, n + 1, "DB_ERROR")
  ELSE
    LET row == [id |-> Len(d.webhookLogs) + 1, userId |-> log.userId,
                action |-> log.action, serverId |-> log.serverId,
                status |-> log.status]
        d1 == [d EXCEPT !.webhookLogs = Append(@, row)]
    IN  IF Fails(n + 2, f) THEN Throw(d1, n + 2, "DB_ERROR")
        ELSE Ok(d1, n + 2, row)

----------------------------------------------------------------------------
(* Webhook handlers (server/webhooks.ts).  A handler that throws keeps the *)
(* rows it wrote before the throw: no statement runs in a transaction.     *)

EmptyData == [name |-> Undef, hostname |-> Undef, ipAddress |-> Undef,
              userId |-> Undef, cpuUsage |-> Undef, ramUsage |-> Undef,
              ramUsagePercent |-> Undef, diskUsage |-> Undef,
              diskUsagePercent |-> Undef, networkIn |-> Undef,
              networkOut |-> Undef, activeConnections |-> Undef]

\* The snapshot handleCreateServer records for a new server.
ZeroMetric == [EmptyData EXCEPT !.cpuUsage = Num(0), !.ramUsage = Num(0),
                 !.ramUsagePercent = Num(0), !.diskUsage = Num(0),
                 !.diskUsagePercent = Num(0), !.networkIn = Num(0),
                 !.networkOut = Num(0), !.activeConnections = Num(0)]

\* handleCreateServer that forgets to require ipAddress.
MissingRequired_IpUnchecked(data) ==
  Falsy(data.name) \/ Falsy(data.hostname)

\* !data.name || !data.hostname || !data.ipAddress
MissingRequired(data) ==
  Falsy(data.name) \/ Falsy(data.hostname) \/ Falsy(data.ipAddress)

\* The createdBy given to a server created by the webhook.
CreatedBy(data, userId) == userId

\* The status a new server is given.
InitialStatus == "online"

handleCreateServer(d, n, f, tb, strict, clock, data, userId) ==
  LET Try(r, rest(_)) ==
        IF r.err # "" THEN Throw(r.d, r.n, r.err) ELSE rest(r)
  IN
  IF MissingRequired(data) THEN Throw(d, n, "BAD_REQUEST")
  ELSE
    Try(createServer(d, n, f, tb,
          [NoServer EXCEPT !.name = data.name.s,
                           !.hostname = data.hostname.s,
                           !.ipAddress = data.ipAddress.s,
                           !.status = InitialStatus,
                           !.createdBy = CreatedBy(data, userId),
                           !.lastSeen = clock], clock),
        LAMBDA server :
          Try(createMetric(server.d, server.n, f, tb, strict, server.val.id,
                           ZeroMetric, clock),
              LAMBDA metric :
                Ok(metric.d, metric.n, [NoRet EXCEPT !.server = server.val])))

\* A handler that leaves the ownership check out.
NotOwner_Unchecked(server, userId) == FALSE

\* server.createdBy !== userId
NotOwner(server, userId) == server.createdBy # userId

handleDeleteServer(d, n, f, serverId, userId) ==
  LET Try(r, rest(_)) ==
        IF r.err # "" THEN Throw(r.d, r.n, r.err) ELSE rest(r)
  IN
  Try(getServerById(d, n, f, serverId),
      LAMBDA server :
        IF server.val.id = 0 THEN Throw(server.d, server.n, "NOT_FOUND")
        ELSE IF NotOwner(server.val, userId)
        THEN Throw(server.d, server.n, "FORBIDDEN")
        ELSE Try(deleteServer(server.d, server.n, f, serverId),
                 LAMBDA done : Ok(done.d, done.n, NoRet)))

\* A switch without the restart case.
NewStatus_NoRestartCase(action, status) ==
  CASE action = "start" -> "online"
    [] action = "stop" -> "offline"
    [] OTHER -> status

\* The switch of handleServerStatusChange.
NewStatus(action, status) ==
  CASE action = "start" -> "online"
    [] action = "stop" -> "offline"
    [] action = "restart" -> "online"
    [] OTHER -> status

handleServerStatusChange(d, n, f, clock, serverId, action, userId) ==
  LET Try(r, rest(_)) ==
        IF r.err # "" THEN Throw(r.d, r.n, r.err) ELSE rest(r)
  IN
  Try(getServerById(d, n, f, serverId),
      LAMBDA server :
        IF server.val.id = 0 THEN Throw(server.d, server.n, "NOT_FOUND")
        ELSE IF NotOwner(server.val, userId)
        THEN Throw(server.d, server.n, "FORBIDDEN")
        ELSE Try(updateServer(server.d, server.n, f, serverId,
                   [status |-> NewStatus(action, server.val.status),
                    lastSeen |-> clock]),
                 LAMBDA updatedServer :
                   Ok(updatedServer.d, updatedServer.n,
                      [NoRet EXCEPT !.server = updatedServer.val])))

\* The threshold above which a percentage raises a critical alert.
AlertThreshold == 90

\* The validation of handleMetricsUpdate: a comparison with a value that
\* is not a number is false, so such a value passes.
InvalidMetrics(metrics) ==
  \/ JsLt(metrics.cpuUsage, 0) \/ JsGt(metrics.cpuUsage, 100)
  \/ JsLt(metrics.ramUsagePercent, 0) \/ JsGt(metrics.ramUsagePercent, 100)
  \/ JsLt(metrics.diskUsagePercent, 0) \/ JsGt(metrics.diskUsagePercent, 100)

\* v > 90
Exceeds(v) == JsGt(v, AlertThreshold)

NewAlert(serverId, message) ==
  [serverId |-> serverId, severity |-> "critical", message |-> message]

\* The alerts array built after the snapshot is stored.  The CPU and memory
\* messages call toFixed on the value itself, which throws a TypeError on a
\* string; the disk message calls it on 100 - value, which is a number.
AlertsFor(serverId, metrics) ==
  LET cpu == IF Exceeds(metrics.cpuUsage)
             THEN <<NewAlert(serverId, "High CPU usage")>> ELSE <<>>
      ram == IF Exceeds(metrics.ramUsagePercent)
             THEN <<NewAlert(serverId, "High memory usage")>> ELSE <<>>
      disk == IF Exceeds(metrics.diskUsagePercent)
              THEN <<NewAlert(serverId, "Low disk space")>> ELSE <<>>
      typeError ==
        \/ Exceeds(metrics.cpuUsage) /\ ~HasToFixed(metrics.cpuUsage)
        \/ Exceeds(metrics.ramUsagePercent) /\ ~HasToFixed(metrics.ramUsagePercent)
  IN  [err |-> IF typeError THEN "TYPE_ERROR" ELSE "",
       alerts |-> cpu \o ram \o disk]

\* The row handed to db.createAlert for an element of the alerts array.
AlertInsert(alert) ==
  [serverId |-> alert.serverId, severity |-> alert.severity,
   message |-> alert.message, acknowledged |-> FALSE]

RECURSIVE CreateAlerts(_, _, _, _, _, _, _)
\* for (const alert of alerts) await db.createAlert(...)
CreateAlerts(d, n, f, tb, strict, clock, todo) ==
  LET Try(r, rest(_)) ==
        IF r.err # "" THEN Throw(r.d, r.n, r.err) ELSE rest(r)
  IN
  IF todo = <<>> THEN Ok(d, n, NoRet)
  ELSE Try(createAlert(d, n, f, tb, strict, AlertInsert(Head(todo)), clock),
           LAMBDA r : CreateAlerts(r.d, r.n, f, tb, strict, clock, Tail(todo)))

\* The part of handleMetricsUpdate after the lastSeen update.
RaiseAlerts(d, n, f, tb, strict, clock, metric, a) ==
  LET Try(r, rest(_)) ==
        IF r.err # "" THEN Throw(r.d, r.n, r.err) ELSE rest(r)
  IN
  IF a.err # "" THEN Throw(d, n, a.err)
  ELSE Try(CreateAlerts(d, n, f, tb, strict, clock, a.alerts),
           LAMBDA done :
             Ok(done.d, done.n,
                [NoRet EXCEPT !.metric = metric, !.alerts = a.alerts]))

handleMetricsUpdate(d, n, f, tb, strict, clock, serverId, metrics, userId) ==
  LET Try(r, rest(_)) ==
        IF r.err # "" THEN Throw(r.d, r.n, r.err) ELSE rest(r)
  IN
  Try(getServerById(d, n, f, serverId),
      LAMBDA server :
        IF server.val.id = 0 THEN Throw(server.d, server.n, "NOT_FOUND")
        ELSE IF NotOwner(server.val, userId)
        THEN Throw(server.d, server.n, "FORBIDDEN")
        ELSE IF InvalidMetrics(metrics)
        THEN Throw(server.d, server.n, "BAD_REQUEST")
        ELSE
          Try(createMetric(server.d, server.n, f, tb, strict, serverId,
                           metrics, clock),
              LAMBDA metric :
                Try(updateServer(metric.d, metric.n, f, serverId,
                                 [lastSeen |-> clock]),
                    LAMBDA seen :
                      RaiseAlerts(seen.d, seen.n, f, tb, strict, clock,
                                  metric.val, AlertsFor(serverId, metrics)))))

\* payload.action.replace('_server', '')
StripServer(action) ==
  CASE action = "start_server" -> "start"
    [] action = "stop_server" -> "stop"
    [] action = "restart_server" -> "restart"
    [] OTHER -> action

processWebhook(d, n, f, tb, strict, clock, payload, userId) ==
  CASE payload.action = "create_server" ->
         handleCreateServer(d, n, f, tb, strict, clock, payload.data, userId)
    [] payload.action = "delete_server" ->
         IF payload.serverId = 0 THEN Throw(d, n, "BAD_REQUEST")
         ELSE handleDeleteServer(d, n, f, payload.serverId, userId)
    [] payload.action \in {"start_server", "stop_server", "restart_server"} ->
         IF payload.serverId = 0 THEN Throw(d, n, "BAD_REQUEST")
         ELSE handleServerStatusChange(d, n, f, clock, payload.serverId,
                                       StripServer(payload.action), userId)
    [] payload.action = "update_metrics" ->
         IF payload.serverId = 0 THEN Throw(d, n, "BAD_REQUEST")
         ELSE handleMetricsUpdate(d, n, f, tb, strict, clock, payload.serverId,
                                  payload.data, userId)
    [] OTHER -> Throw(d, n, "BAD_REQUEST")

----------------------------------------------------------------------------
(* webhookRouter.handleEvent.                                              *)

\* What one call did: the tables, the statements issued, the error thrown,
\* the value returned, the user the key resolved to, and whether
\* processWebhook was entered.
Outcome(r, user, entered) ==
  [d |-> r.d, n |-> r.n, err |-> r.err, val |-> r.val, user |-> user,
   entered |-> entered]

\* A catch block that logs the failure as a success.
FailureLog_StatusSuccess(input) ==
  [userId |-> 0, action |-> input.action, serverId |-> input.serverId,
   status |-> "success"]

\* A catch block that attributes the failure to user 1.
FailureLog_RealActor(input) ==
  [userId |-> 1, action |-> input.action, serverId |-> input.serverId,
   status |-> "failed"]

\* The row the catch block logs.
FailureLog(input) ==
  [userId |-> 0, action |-> input.action, serverId |-> input.serverId,
   status |-> "failed"]

\* The catch block: log the failure, then rethrow.  When the log itself
\* throws, that error is the one the caller sees.
CatchAndLog(d, n, f, input, err) ==
  LET Try(r, rest(_)) ==
        IF r.err # "" THEN Throw(r.d, r.n, r.err) ELSE rest(r)
  IN
  Try(createWebhookLog(d, n, f, FailureLog(input)),
      LAMBDA logged : Throw(logged.d, logged.n, err))

\* A key check that does not look at the active flag.
KeyRejected_ActiveIgnored(apiKey) == apiKey.id = 0

\* !apiKey || !apiKey.active
KeyRejected(apiKey) == apiKey.id = 0 \/ ~apiKey.active

\* A dispatcher that refuses to act on a request whose signature field
\* is present and is not the signer's.
Payload_SignatureChecked(input) ==
  [action |-> IF input.signature = [t |-> "str", n |-> 0, s |-> "bad"]
              THEN "" ELSE input.action,
   serverId |-> input.serverId, data |-> input.data]

\* The payload handed to processWebhook: action, serverId and data of the
\* input (`data: input.data || {}`: absent data is the record without
\* fields).
Payload(input) ==
  [action |-> input.action, serverId |-> input.serverId, data |-> input.data]

\* TryCatch is a statement of the try block: what it throws is caught and
\* logged.
handleEvent(d, f, tb, strict, clock, input) ==
  LET TryCatch(r, user, entered, rest(_)) ==
        IF r.err # ""
        THEN Outcome(CatchAndLog(r.d, r.n, f, input, r.err), user, entered)
        ELSE rest(r)
  IN
  TryCatch(getApiKeyByKey(d, 0, f, input.apiKey), 0, FALSE,
    LAMBDA apiKey :
      IF KeyRejected(apiKey.val)
      THEN Outcome(CatchAndLog(apiKey.d, apiKey.n, f, input, "UNAUTHORIZED"),
                   0, FALSE)
      ELSE
        TryCatch(getUserById(apiKey.d, apiKey.n, f, apiKey.val.userId),
                 0, FALSE,
          LAMBDA user :
            IF user.val = 0
            THEN Outcome(CatchAndLog(user.d, user.n, f, input, "UNAUTHORIZED"),
                         0, FALSE)
            ELSE
              TryCatch(processWebhook(user.d, user.n, f, tb, strict, clock,
                                      Payload(input), user.val),
                       user.val, TRUE,
                LAMBDA result :
                  TryCatch(createWebhookLog(result.d, result.n, f,
                             [userId |-> user.val, action |-> input.action,
                              serverId |-> input.serverId,
                              status |-> "success"]),
                           user.val, TRUE,
                    LAMBDA logged :
                      Outcome(Ok(logged.d, logged.n, result.val),
                              user.val, TRUE)))))

----------------------------------------------------------------------------
(* Remote telemetry (ServerConnection): the text a command prints, and the *)
(* parsing of getMetrics, getProcesses and getLogs.  A text is a sequence  *)
(* of one-character strings.                                               *)

Digits == ("0" :> 0) @@ ("1" :> 1) @@ ("2" :> 2) @@ ("3" :> 3) @@ ("4" :> 4)
          @@ ("5" :> 5) @@ ("6" :> 6) @@ ("7" :> 7) @@ ("8" :> 8) @@ ("9" :> 9)

WhiteSpace == {" ", "\n"}

RECURSIVE TrimStart(_)
TrimStart(s) ==
  IF s # <<>> /\ Head(s) \in WhiteSpace THEN TrimStart(Tail(s)) ELSE s

RECURSIVE TrimEnd(_)
TrimEnd(s) ==
  IF s # <<>> /\ s[Len(s)] \in WhiteSpace
  THEN TrimEnd(SubSeq(s, 1, Len(s) - 1)) ELSE s

\* String.prototype.trim
Trim(s) == TrimEnd(TrimStart(s))

\* The longest prefix of s made of digits.
RECURSIVE DigitPrefix(_)
DigitPrefix(s) ==
  IF s # <<>> /\ Head(s) \in DOMAIN Digits
  THEN <<Head(s)>> \o DigitPrefix(Tail(s)) ELSE <<>>

\* The number a sequence of digits denotes.
RECURSIVE DigitValue(_)
DigitValue(s) ==
  IF s = <<>> THEN 0
  ELSE 10 * DigitValue(SubSeq(s, 1, Len(s) - 1)) + Digits[s[Len(s)]]

\* parseInt(s): leading white space is skipped, a sign is read, then the
\* digits up to the first other character; NaN when there is no digit.
parseInt(s) ==
  LET t == TrimStart(s)
      signed == t # <<>> /\ Head(t) \in {"-", "+"}
      digs == DigitPrefix(IF signed THEN Tail(t) ELSE t)
  IN  IF digs = <<>> THEN NaN
      ELSE IF signed /\ Head(t) = "-" THEN Num(0 - DigitValue(digs))
      ELSE Num(DigitValue(digs))

\* parseFloat(s).  The texts of the model hold no '.', exponent or
\* 'Infinity', and on such texts parseFloat reads what parseInt reads.
parseFloat(s) == parseInt(s)

\* Number(s): the whole text, trimmed, must be a number; the empty text is 0.
Number(s) ==
  LET t == Trim(s)
      signed == t # <<>> /\ Head(t) \in {"-", "+"}
      body == IF signed THEN Tail(t) ELSE t
  IN  IF t = <<>> THEN Num(0)
      ELSE IF body = <<>> \/ DigitPrefix(body) # body THEN NaN
      ELSE IF Head(t) = "-" THEN Num(0 - DigitValue(body))
      ELSE Num(DigitValue(body))

\* s.split(c) for a one-character separator c.
RECURSIVE Split(_, _)
Split(s, c) ==
  IF \A i \in 1..Len(s) : s[i] # c THEN <<s>>
  ELSE LET i == CHOOSE j \in 1..Len(s) :
                  s[j] = c /\ \A k \in 1..(j - 1) : s[k] # c
       IN  <<SubSeq(s, 1, i - 1)>> \o Split(SubSeq(s, i + 1, Len(s)), c)

\* parts.join(' ')
RECURSIVE Join(_)
Join(parts) ==
  IF parts = <<>> THEN <<>>
  ELSE IF Len(parts) = 1 THEN parts[1]
  ELSE parts[1] \o <<" ">> \o Join(Tail(parts))

\* v || k
OrElse(v, k) == IF Falsy(v) THEN Num(k) ELSE v

\* Math.min(a, b) of two numbers.
MathMin(a, b) == IF a < b THEN a ELSE b

\* Math.round((percent / 100) * total): the nearest integer, a half going up.
RoundShare(percent, total) == (2 * percent * total + 100) \div 200

\* The commands of getMetrics, in the order they are awaited.
MetricCommands == <<"cpu", "ram", "totalRam", "disk", "totalDisk", "net",
                    "conn", "uptime", "os", "kernel", "cpuModel", "cpuCores">>

\* The value getMetrics returns when the twelve commands print out[c].
getMetrics(out) ==
  LET cpuUsage == OrElse(parseFloat(out.cpu), 0).n
      ramUsagePercent == OrElse(parseFloat(out.ram), 0).n
      totalRam == OrElse(parseInt(out.totalRam), 0).n
      diskUsagePercent == OrElse(parseFloat(out.disk), 0).n
      totalDisk == OrElse(parseInt(out.totalDisk), 0).n
      net == Split(out.net, " ")
      networkIn == Number(net[1])
      networkOut == IF Len(net) >= 2 THEN Number(net[2]) ELSE Undef
  IN  [cpuUsage |-> MathMin(cpuUsage, 100),
       ramUsage |-> RoundShare(ramUsagePercent, totalRam),
       ramUsagePercent |-> MathMin(ramUsagePercent, 100),
       diskUsage |-> RoundShare(diskUsagePercent, totalDisk),
       diskUsagePercent |-> MathMin(diskUsagePercent, 100),
       networkIn |-> OrElse(networkIn, 0).n,
       networkOut |-> OrElse(networkOut, 0).n,
       activeConnections |-> OrElse(parseInt(out.conn), 0).n,
       uptime |-> Trim(out.uptime),
       osVersion |-> Trim(out.os),
       kernelVersion |-> Trim(out.kernel),
       cpuModel |-> Trim(out.cpuModel),
       cpuCores |-> OrElse(parseInt(out.cpuCores), 1).n,
       totalRam |-> totalRam,
       totalDisk |-> totalDisk]

\* line.trim().split(/\s+/): the runs of characters between white space.
RECURSIVE Fields(_)
Fields(line) ==
  LET t == TrimStart(line)
      stop == {i \in 1..Len(t) : t[i] \in WhiteSpace}
      n == IF stop = {} THEN Len(t) ELSE SeqMin(stop) - 1
  IN  IF t = <<>> THEN <<>>
      ELSE <<SubSeq(t, 1, n)>> \o Fields(SubSeq(t, n + 1, Len(t)))

Unknown == <<"u", "n", "k", "n", "o", "w", "n">>

\* The element of parts at a zero-based index, or the fallback when it is
\* absent or empty: parts[i] || fallback.
PartOr(parts, i, fallback) ==
  IF i + 1 <= Len(parts) /\ parts[i + 1] # <<>> THEN parts[i + 1] ELSE fallback

\* The record getProcesses builds from one non-blank line.
ProcessRecord(line, index) ==
  LET parts == IF Fields(line) = <<>> THEN <<<<>>>> ELSE Fields(line)
  IN  [id |-> index,
       pid |-> OrElse(parseInt(PartOr(parts, 0, <<>>)), 0).n,
       user |-> PartOr(parts, 1, Unknown),
       cpuUsage |-> OrElse(parseFloat(PartOr(parts, 2, <<>>)), 0).n,
       ramUsage |-> OrElse(parseFloat(PartOr(parts, 3, <<>>)), 0).n,
       name |-> PartOr(parts, 4, Unknown),
       status |-> "running",
       command |-> Join(SubSeq(parts, 5, Len(parts)))]

\* The value getProcesses returns when the listing prints stdout.
getProcesses(stdout) ==
  LET lines == SelectSeq(Split(stdout, "\n"), LAMBDA l : Trim(l) # <<>>)
  IN  [i \in 1..Len(lines) |-> ProcessRecord(lines[i], i - 1)]

\* A line of the journal, by what JSON.parse makes of it: an object with
\* the PRIORITY, MESSAGE and SYSLOG_IDENTIFIER it carries ("" when the key
\* is absent), another JSON value, the value null, or no JSON at all.
JournalLine(kind, priority, message, source) ==
  [kind |-> kind, PRIORITY |-> priority, MESSAGE |-> message,
   SYSLOG_IDENTIFIER |-> source]

BlankLine == JournalLine("blank", "", "", "")

\* The level of a parsed entry.
Level(priority) ==
  CASE priority = "0" -> "critical"
    [] priority = "1" -> "error"
    [] priority = "2" -> "warning"
    [] OTHER -> "info"

\* The record getLogs builds from one line.  JSON.parse throws on text that
\* is not JSON, and reading a property of null throws; both are caught and
\* the line is dropped.  A value that is not an object has no properties.
LogRecord(line, index) ==
  IF line.kind = "object"
  THEN [id |-> index, serverId |-> 0, level |-> Level(line.PRIORITY),
        message |-> line.MESSAGE,
        source |-> IF line.SYSLOG_IDENTIFIER = "" THEN "system"
                   ELSE line.SYSLOG_IDENTIFIER]
  ELSE [id |-> index, serverId |-> 0, level |-> "info", message |-> "",
        source |-> "system"]

\* The value getLogs returns when the journal prints the given lines.
getLogs(lines) ==
  LET kept == SelectSeq(lines, LAMBDA l : l.kind # "blank")
      idx == SelectSeq([i \in 1..Len(kept) |-> i],
                       LAMBDA i : kept[i].kind \in {"object", "value"})
  IN  [j \in 1..Len(idx) |-> LogRecord(kept[idx[j]], idx[j] - 1)]

----------------------------------------------------------------------------
(* Webhook signatures.  A payload object is the sequence of its own        *)
(* properties in insertion order, each a pair of texts; the digest is a    *)
(* keyed checksum of one byte, standing for HMAC-SHA256, printed as        *)
(* lowercase hexadecimal.                                                  *)

Hex == <<"0", "1", "2", "3", "4", "5", "6", "7", "8", "9",
         "a", "b", "c", "d", "e", "f">>

\* The characters of keys, values, secrets and serialized payloads.
Chars == <<"{", "}", "\"", ":", ",", "a", "b", "k", "q", "x", "y">>

Code(c) == CHOOSE i \in 1..Len(Chars) : Chars[i] = c

DigestSpace == 256

\* JSON.stringify of a payload object: the properties in insertion order.
RECURSIVE Properties(_)
Properties(payload) ==
  IF payload = <<>> THEN <<>>
  ELSE LET head == <<"\"">> \o payload[1][1] \o <<"\"", ":", "\"">>
                     \o payload[1][2] \o <<"\"">>
       IN  IF Len(payload) = 1 THEN head
           ELSE head \o <<",">> \o Properties(Tail(payload))

Stringify(payload) == <<"{">> \o Properties(payload) \o <<"}">>

\* The bytes of a text folded into a running checksum.
RECURSIVE Absorb(_, _)
Absorb(h, text) ==
  IF text = <<>> THEN h
  ELSE Absorb((h * 31 + Code(text[1])) % DigestSpace, Tail(text))

\* createHmac('sha256', secret).update(text).digest('hex')
createHmac(secret, text) ==
  LET h == Absorb(Absorb(Absorb(7, secret), <<":">>), text)
  IN  <<Hex[(h \div 16) + 1], Hex[(h % 16) + 1]>>

\* A verifier that compares the first character of the digest only.
verifyWebhookSignature_FirstCharacter(payload, signature, secret) ==
  /\ signature # <<>>
  /\ createHmac(secret, payload)[1] = signature[1]

verifyWebhookSignature(payload, signature, secret) ==
  LET hash == createHmac(secret, payload)
  IN  hash = signature

generateWebhookSignature(payload, secret) ==
  LET payloadString == Stringify(payload)
  IN  createHmac(secret, payloadString)

----------------------------------------------------------------------------
(* The state machine.                                                      *)

Tables == [servers |-> servers, serverMetrics |-> serverMetrics,
           alerts |-> alerts, webhookLogs |-> webhookLogs,
           apiKeys |-> apiKeys, nextServerId |-> nextServerId]

Commit(d) ==
  /\ servers' = d.servers
  /\ serverMetrics' = d.serverMetrics
  /\ alerts' = d.alerts
  /\ webhookLogs' = d.webhookLogs
  /\ apiKeys' = d.apiKeys
  /\ nextServerId' = d.nextServerId

Status == {"online", "offline", "warning", "error"}

Actions == {"create_server", "delete_server", "start_server", "stop_server",
            "restart_server", "update_metrics"}

\* Keys presented to the endpoint: two active keys of two users, a revoked
\* key, an active key whose user row is gone, the key createApiKey
\* generates, and a key that is never stored.
Keys == {"sk_1", "sk_2", "sk_3", "sk_o", "sk_n", "sk_x"}

\* serverId: 0 stands for an absent (or zero) serverId, which the
\* dispatcher treats alike.
ServerIds == {0, 1, 2}

CreateData ==
  {[EmptyData EXCEPT !.name = a, !.hostname = b, !.ipAddress = c, !.userId = u] :
     a \in {Undef, Str("A")}, b \in {Str(""), Str("h")},
     c \in {Undef, Str("10.0.0.1")}, u \in {Undef, Num(2)}}

\* Percentages a metrics payload may carry: on and above the alert
\* threshold, out of range, absent, and strings.
Valid == {Num(90), Num(95)}
Invalid == {Undef, Str("abc"), Str("50"), Str("95"), Num(0 - 1), Num(101)}

MetricsBase == [EmptyData EXCEPT !.ramUsage = Num(1), !.diskUsage = Num(1)]

MetricsData ==
  {[MetricsBase EXCEPT !.cpuUsage = c, !.ramUsagePercent = r,
                       !.diskUsagePercent = k] :
     c \in Valid, r \in Valid, k \in Valid}
  \cup {[MetricsBase EXCEPT !.cpuUsage = v, !.ramUsagePercent = Num(90),
                            !.diskUsagePercent = Num(90)] : v \in Invalid}
  \cup {[MetricsBase EXCEPT !.cpuUsage = Num(90), !.ramUsagePercent = v,
                            !.diskUsagePercent = Num(90)] : v \in Invalid}
  \cup {[MetricsBase EXCEPT !.cpuUsage = Num(90), !.ramUsagePercent = Num(90),
                            !.diskUsagePercent = v] : v \in Invalid}

\* A request without the optional signature field.
Input(a, id, data, key) ==
  [action |-> a, serverId |-> id, data |-> data, apiKey |-> key,
   signature |-> Undef]

\* The optional signature field: absent, the signer's digest of the
\* request, or another text.
SignatureFields == {Undef, Str("good"), Str("bad")}

\* The requests explored.  Requests with a key that does not authenticate
\* carry no data: nothing of the request is read before the key is checked.
Inputs ==
  LET good == {"sk_1", "sk_2"}
  IN  {Input("create_server", 0, x, k) : x \in CreateData, k \in good}
      \cup {Input(a, id, EmptyData, k) :
              a \in {"delete_server", "start_server", "stop_server",
                     "restart_server"}, id \in ServerIds, k \in good}
      \cup {Input("update_metrics", 1, x, k) : x \in MetricsData, k \in good}
      \cup {Input("update_metrics", id, MetricsBase, k) :
              id \in {0, 2}, k \in good}
      \cup {Input("reboot_server", 1, EmptyData, k) : k \in good}
      \cup {Input(a, 1, EmptyData, k) :
              a \in Actions \cup {"reboot_server"}, k \in Keys \ good}
      \cup {[Input(a, 1, EmptyData, k) EXCEPT !.signature = g] :
              a \in {"stop_server", "delete_server", "reboot_server"},
              k \in {"sk_1", "sk_2", "sk_3"},
              g \in SignatureFields \ {Undef}}
      \cup {[Input("create_server", 0, x, "sk_1") EXCEPT !.signature = g] :
              x \in {[EmptyData EXCEPT !.name = Str("A"),
                                       !.hostname = Str("h"),
                                       !.ipAddress = Str("10.0.0.1")]},
              g \in SignatureFields \ {Undef}}
      \cup {[Input("update_metrics", 1, x, "sk_1") EXCEPT !.signature = g] :
              x \in {[MetricsBase EXCEPT !.cpuUsage = Num(95),
                                         !.ramUsagePercent = Num(90),
                                         !.diskUsagePercent = Num(90)]},
              g \in SignatureFields \ {Undef}}

TieBreaks == {"newest", "oldest"}

\* The longest run of statements of one invocation: key and user lookup,
\* handleMetricsUpdate with three alerts, the success log and the failure
\* log.
MaxStatements == 2 + 5 + 2 * 3 + 2 + 2

Faults == {NoFault} \cup
          {[at |-> k, outage |-> o] : k \in 1..MaxStatements, o \in BOOLEAN}

\* The seeded databases: users 1 and 2 have each created one server through
\* create_server at time 0, servers.update has left the first server in any
\* status, user 1 has revoked a second key, and a third user who held a key
\* has been removed from the users table.
SeedServer(id, user, status) ==
  [id |-> id, name |-> "A", hostname |-> "h", ipAddress |-> "10.0.0.1",
   status |-> status, createdBy |-> user, lastSeen |-> 0, createdAt |-> 0]
SeedMetric(id) == [NoMetric EXCEPT !.id = id, !.serverId = id]
SeedLog(id, user) ==
  [id |-> id, userId |-> user, action |-> "create_server", serverId |-> 0,
   status |-> "success"]

Seeded(st, strict) ==
  /\ servers = <<SeedServer(1, 1, st), SeedServer(2, 2, "online")>>
  /\ serverMetrics = <<SeedMetric(1), SeedMetric(2)>>
  /\ alerts = <<>>
  /\ webhookLogs = <<SeedLog(1, 1), SeedLog(2, 2)>>
  /\ apiKeys = <<[id |-> 1, userId |-> 1, key |-> "sk_1", active |-> TRUE],
                 [id |-> 2, userId |-> 2, key |-> "sk_2", active |-> TRUE],
                 [id |-> 3, userId |-> 1, key |-> "sk_3", active |-> FALSE],
                 [id |-> 4, userId |-> 3, key |-> "sk_o", active |-> TRUE]>>
  /\ nextServerId = 3
  /\ sqlStrict = strict
  /\ now = 0
  /\ calls = 0
  /\ pre = Tables
  /\ last = [op |-> "init", input |-> Input("", 0, EmptyData, ""), user |-> 0,
             err |-> "", ret |-> NoRet, entered |-> FALSE, fault |-> NoFault,
             tb |-> "newest"]
  /\ inflight = <<>>

Sessions == {1, 2}

\* The outputs of the twelve commands of getMetrics on a healthy host.
Baseline ==
  [cpu |-> <<"4", "2">>, ram |-> <<"5", "0">>, totalRam |-> <<"2", "0", "0">>,
   disk |-> <<"1", "0">>, totalDisk |-> <<"3", "0", "0">>,
   net |-> <<"7", " ", "9">>, conn |-> <<"3">>, uptime |-> <<"u", "p", "\n">>,
   os |-> <<"o", "s">>, kernel |-> <<"k">>, cpuModel |-> <<"m">>,
   cpuCores |-> <<"4">>]

\* What a command may print instead: nothing, text that is no number, a
\* negative number, a number above 100, a number after white space, a
\* number followed by text.
Odd == {<<>>, <<"a", "b">>, <<"-", "5">>, <<"1", "5", "0">>, <<" ", "7">>,
        <<"9", "x">>}

\* The outputs explored: every combination for the three percentages, and
\* each command alone printing something odd.
MetricOutputs ==
  {[Baseline EXCEPT !.cpu = a, !.ram = b, !.disk = c] :
     a \in Odd \cup {Baseline.cpu}, b \in Odd \cup {Baseline.ram},
     c \in Odd \cup {Baseline.disk}}
  \cup {[Baseline EXCEPT ![MetricCommands[i]] = o] :
          i \in 1..Len(MetricCommands), o \in Odd}

\* Process listings: two well-formed lines, and a listing with a blank
\* line and a line of two fields.
Listings ==
  {<<"1", " ", "r", " ", "5", " ", "2", " ", "s", "h", "\n",
     "2", " ", "r", " ", "0", " ", "1", " ", "l", "s">>,
   <<"1", " ", "r", " ", "5", " ", "2", " ", "s", "h", "\n", " ", "\n",
     "x", " ", "r">>}

\* Journals: entries of each priority, a blank line, text that is not JSON,
\* null, and a JSON value that is not an object.
Journals ==
  {<<JournalLine("object", "0", "m", "sshd"), JournalLine("object", "1", "m", ""),
     JournalLine("object", "2", "", "k"), JournalLine("object", "6", "m", "k")>>,
   <<JournalLine("object", "", "m", "k"), BlankLine,
     JournalLine("garbage", "", "", ""), JournalLine("null", "", "", ""),
     JournalLine("value", "", "", ""), JournalLine("object", "1", "m", "k")>>}

\* What a host prints to the commands of one call.
Remote(metrics, listing, journal) ==
  [metrics |-> metrics, listing |-> listing, journal |-> journal]

NoRemote == Remote(Baseline, <<>>, <<>>)

\* The hosts polled while calls overlap: a healthy one and one whose nproc
\* prints nothing.
FewRemotes ==
  {Remote(m, l, j) :
     m \in {Baseline, [Baseline EXCEPT !.cpuCores = <<>>]},
     l \in {CHOOSE x \in Listings : TRUE}, j \in {CHOOSE x \in Journals : TRUE}}

OpResult(op, conn, serverId, was, err, ret, execs, remote) ==
  [op |-> op, conn |-> conn, serverId |-> serverId, was |-> was, err |-> err,
   ret |-> ret, execs |-> execs, remote |-> remote]

NoOp == OpResult("none", 0, 0, FALSE, "", <<>>, 0, NoRemote)

\* After construction: no session is connected and the pool is empty.
Fresh ==
  /\ connected = [s \in Sessions |-> FALSE]
  /\ ssh = [s \in Sessions |-> [open |-> FALSE, disposed |-> 0]]
  /\ connections = <<>>
  /\ pending = <<>>
  /\ ops = 0
  /\ added = {}
  /\ lastOp = NoOp

Init ==
  /\ \E st \in Status, strict \in BOOLEAN : Seeded(st, strict)
  /\ Fresh

\* The return of a call.  A fault plan is explored only when the call
\* reaches its statements.
Returned(input, f, tb, r) ==
  /\ f.at <= r.n
  /\ f.outage => f.at < r.n
  /\ Commit(r.d)
  /\ last' = [op |-> "handleEvent", input |-> input, user |-> r.user,
              err |-> r.err, ret |-> r.val, entered |-> r.entered,
              fault |-> f, tb |-> tb]

\* One call of the webhook endpoint, dt clock ticks after the previous
\* invocation.
HandleEvent(input, f, tb, dt) ==
  /\ calls < MaxCalls
  /\ tb = "oldest" => input.action = "create_server"
  /\ Returned(input, f, tb,
              handleEvent(Tables, f, tb, sqlStrict, now + dt, input))
  /\ now' = now + dt
  /\ calls' = calls + 1
  /\ pre' = Tables
  /\ UNCHANGED <<sqlStrict, inflight>>
  /\ UNCHANGED connVars

RouteDone(op, id, user, r) ==
  /\ Commit(r.d)
  /\ last' = [op |-> op, input |-> Input("", id, EmptyData, ""), user |-> user,
              err |-> r.err,
              ret |-> IF r.err = "" THEN [NoRet EXCEPT !.server = r.val]
                      ELSE NoRet,
              entered |-> FALSE, fault |-> NoFault, tb |-> "newest"]
  /\ calls' = calls + 1
  /\ pre' = Tables
  /\ UNCHANGED <<sqlStrict, now, inflight>>
  /\ UNCHANGED connVars

\* The name, hostname and ipAddress given to servers.create: those of a
\* stored server, and new ones.
CreateInputs ==
  {[name |-> "A", hostname |-> "h", ipAddress |-> "10.0.0.1"],
   [name |-> "B", hostname |-> "g", ipAddress |-> "10.0.0.2"]}

\* The values Math.random gives the first snapshot of a new server.
SimulatedLoads == {0, 50}

generateSimulatedMetrics(load) ==
  [EmptyData EXCEPT !.cpuUsage = Num(load), !.ramUsage = Num(load),
                    !.ramUsagePercent = Num(load), !.diskUsage = Num(load),
                    !.diskUsagePercent = Num(load), !.networkIn = Num(load),
                    !.networkOut = Num(load), !.activeConnections = Num(load)]

\* The mutation of servers.create.
serversCreate(d, tb, strict, clock, input, load, user) ==
  LET Try(r, rest(_)) ==
        IF r.err # "" THEN Throw(r.d, r.n, r.err) ELSE rest(r)
  IN
  Try(createServer(d, 0, NoFault, tb,
        [NoServer EXCEPT !.name = input.name,
                         !.hostname = input.hostname,
                         !.ipAddress = input.ipAddress,
                         !.status = "online",
                         !.createdBy = user,
                         !.lastSeen = clock], clock),
      LAMBDA server :
        Try(createMetric(server.d, server.n, NoFault, tb, strict,
                         server.val.id, generateSimulatedMetrics(load), clock),
            LAMBDA metric :
              Ok(metric.d, metric.n, [NoRet EXCEPT !.server = server.val])))

\* servers.create, called by the signed-in user dt clock ticks after the
\* previous invocation.
ServersCreate(input, load, user, tb, dt) ==
  /\ calls < MaxCalls
  /\ LET r == serversCreate(Tables, tb, sqlStrict, now + dt, input, load, user)
     IN  /\ Commit(r.d)
         /\ last' = [op |-> "servers.create",
                     input |-> Input("", 0,
                                 [EmptyData EXCEPT
                                    !.name = Str(input.name),
                                    !.hostname = Str(input.hostname),
                                    !.ipAddress = Str(input.ipAddress)], ""),
                     user |-> user, err |-> r.err, ret |-> r.val,
                     entered |-> FALSE, fault |-> NoFault, tb |-> tb]
  /\ now' = now + dt
  /\ calls' = calls + 1
  /\ pre' = Tables
  /\ UNCHANGED <<sqlStrict, inflight>>
  /\ UNCHANGED connVars

\* servers.delete, called by the signed-in user.
ServersDelete(id, user) ==
  /\ calls < MaxCalls
  /\ RouteDone("servers.delete", id, user, deleteServer(Tables, 0, NoFault, id))

\* servers.update of the status, called by the signed-in user.
ServersUpdate(id, status, user) ==
  /\ calls < MaxCalls
  /\ RouteDone("servers.update", id, user,
               updateServer(Tables, 0, NoFault, id, [status |-> status]))

\* webhook.revokeApiKey, called by the signed-in user.
revokeApiKey(d, id, user) ==
  LET Try(r, rest(_)) ==
        IF r.err # "" THEN Throw(r.d, r.n, r.err) ELSE rest(r)
  IN
  Try(getApiKeyById(d, 0, NoFault, id),
      LAMBDA apiKey :
        IF apiKey.val.id = 0 \/ apiKey.val.userId # user
        THEN Throw(d, apiKey.n, "FORBIDDEN")
        ELSE Try(updateApiKey(apiKey.d, apiKey.n, NoFault, id, FALSE),
                 LAMBDA done : Ok(done.d, done.n, NoServer)))

RevokeApiKey(id, user) ==
  /\ calls < MaxCalls
  /\ RouteDone("revokeApiKey", id, user, revokeApiKey(Tables, id, user))

\* The key string Math.random produces.
GeneratedKeys == {"sk_n"}

\* webhook.createApiKey, called by the signed-in user.
CreateApiKey(key, user) ==
  /\ calls < MaxCalls
  /\ LET r == createApiKey(Tables, 0, NoFault,
                            [userId |-> user, key |-> key, active |-> TRUE])
     IN  RouteDone("createApiKey", 0, user,
                   IF r.err # "" THEN r ELSE Ok(r.d, r.n, NoServer))

Routes ==
  \/ \E id \in {1, 2}, user \in Users : ServersDelete(id, user)
  \/ \E id \in {1, 2}, st \in Status, user \in Users : ServersUpdate(id, st, user)
  \/ \E id \in 1..3, user \in Users : RevokeApiKey(id, user)
  \/ \E key \in GeneratedKeys, user \in Users : CreateApiKey(key, user)
  \/ \E input \in CreateInputs, load \in SimulatedLoads, user \in Users,
        tb \in TieBreaks, dt \in {0, 1} :
       ServersCreate(input, load, user, tb, dt)

\* Persistence that never fails.
Next ==
  \/ \E input \in Inputs, tb \in TieBreaks, dt \in {0, 1} :
       HandleEvent(input, NoFault, tb, dt)
  \/ Routes

Spec == Init /\ [][Next]_vars

\* Persistence whose statements may throw.
NextFaults ==
  \/ \E input \in Inputs, f \in Faults, tb \in TieBreaks, dt \in {0, 1} :
       HandleEvent(input, f, tb, dt)
  \/ Routes

SpecFaults == Init /\ [][NextFaults]_vars

\* The part of a start, stop or restart request that runs before
\* `await db.updateServer`: key and user lookup, the read of the server and
\* the ownership check.  passed is false when one of them throws.
statusChangeChecked(d, input) ==
  LET apiKey == getApiKeyByKey(d, 0, NoFault, input.apiKey)
      user == getUserById(d, 1, NoFault, apiKey.val.userId)
      server == getServerById(d, 2, NoFault, Payload(input).serverId)
  IN  [passed |-> /\ ~KeyRejected(apiKey.val)
                  /\ user.val # 0
                  /\ Payload(input).serverId # 0
                  /\ server.val.id # 0
                  /\ ~NotOwner(server.val, user.val),
       user |-> user.val, server |-> server.val]

\* The rest of the request, run on the tables as they are when the call
\* resumes: the update, the read of the updated row, the success log.
statusChangeResumed(d, clock, input, user, server) ==
  LET Try(r, rest(_)) ==
        IF r.err # "" THEN Throw(r.d, r.n, r.err) ELSE rest(r)
  IN
  Try(updateServer(d, 3, NoFault, Payload(input).serverId,
        [status |-> NewStatus(StripServer(Payload(input).action),
                              server.status),
         lastSeen |-> clock]),
      LAMBDA updatedServer :
        Try(createWebhookLog(updatedServer.d, updatedServer.n, NoFault,
              [userId |-> user, action |-> input.action,
               serverId |-> input.serverId, status |-> "success"]),
            LAMBDA logged :
              Ok(logged.d, logged.n,
                 [NoRet EXCEPT !.server = updatedServer.val])))

\* A start, stop or restart request passes its checks and is suspended at
\* `await db.updateServer`.
StatusChangeBegin(input) ==
  /\ calls < MaxCalls
  /\ Len(inflight) < MaxOverlap
  /\ input.action \in {"start_server", "stop_server", "restart_server"}
  /\ LET checked == statusChangeChecked(Tables, input)
     IN  /\ checked.passed
         /\ inflight' = Append(inflight,
                               [input |-> input, user |-> checked.user,
                                server |-> checked.server, pre |-> Tables])
  /\ UNCHANGED <<servers, serverMetrics, alerts, webhookLogs, apiKeys,
                 nextServerId, sqlStrict, now, calls, pre, last>>
  /\ UNCHANGED connVars

\* A suspended status change resumes and returns.
StatusChangeResume(i) ==
  /\ i \in DOMAIN inflight
  /\ LET call == inflight[i]
         r == statusChangeResumed(Tables, now, call.input, call.user,
                                  call.server)
     IN  /\ Commit(r.d)
         /\ last' = [op |-> "handleEvent", input |-> call.input,
                     user |-> call.user, err |-> r.err, ret |-> r.val,
                     entered |-> TRUE, fault |-> NoFault, tb |-> "newest"]
         /\ pre' = call.pre
  /\ inflight' = [j \in 1..(Len(inflight) - 1) |->
                    IF j < i THEN inflight[j] ELSE inflight[j + 1]]
  /\ calls' = calls + 1
  /\ UNCHANGED <<sqlStrict, now>>
  /\ UNCHANGED connVars

\* Webhook calls that overlap: requests run while a status change is
\* suspended.
NextRace ==
  \/ \E input \in Inputs : StatusChangeBegin(input)
  \/ \E i \in 1..MaxOverlap : StatusChangeResume(i)
  \/ \E input \in Inputs, tb \in TieBreaks, dt \in {0, 1} :
       HandleEvent(input, NoFault, tb, dt)
  \/ Routes

SpecRace == Init /\ [][NextRace]_vars

----------------------------------------------------------------------------
(* ServerConnection and ServerConnectionPool.  A call runs up to its first *)
(* await in one step; the settling of the awaited transport promise is a   *)
(* step of its own, so other calls run in between.                         *)

PoolIds == {1, 2}

\* A call suspended at an await: the session it runs on, the connected flag
\* it found, the commands whose output it has received, and for
\* disconnectAll the sessions still to visit.
Task(op, conn, was) ==
  [op |-> op, conn |-> conn, was |-> was, k |-> 0, todo |-> <<>>,
   detached |-> FALSE]

Without(seq, i) == SubSeq(seq, 1, i - 1) \o SubSeq(seq, i + 1, Len(seq))

\* A connect() whose catch block leaves the flag as it was.
connect_FlagKept(flag, ok) ==
  IF ok THEN [connected |-> TRUE, ret |-> TRUE]
  ELSE [connected |-> flag, ret |-> FALSE]

\* What connect() does once ssh.connect has settled: the try block sets the
\* flag and returns true, the catch block clears it and returns false.
connect(flag, ok) ==
  IF ok THEN [connected |-> TRUE, ret |-> TRUE]
  ELSE [connected |-> FALSE, ret |-> FALSE]

\* connect(): builds the configuration and awaits ssh.connect.
Connect(s) ==
  /\ ops < MaxOps
  /\ pending' = Append(pending, Task("connect", s, connected[s]))
  /\ ops' = ops + 1
  /\ UNCHANGED <<connected, ssh, connections, lastOp>>
  /\ UNCHANGED added
  /\ UNCHANGED dbVars

\* ssh.connect resolves (ok) or rejects.
ConnectSettled(i, ok) ==
  /\ pending[i].op = "connect"
  /\ LET t == pending[i]
         r == connect(connected[t.conn], ok)
     IN  /\ connected' = [connected EXCEPT ![t.conn] = r.connected]
         /\ ssh' = IF ok
                   THEN [ssh EXCEPT ![t.conn] = [open |-> TRUE, disposed |-> 0]]
                   ELSE ssh
         /\ lastOp' = OpResult("connect", t.conn, 0, t.was, "", r.ret, 0,
                               NoRemote)
  /\ pending' = Without(pending, i)
  /\ UNCHANGED <<connections, ops>>
  /\ UNCHANGED added
  /\ UNCHANGED dbVars

\* disconnect(): when the flag is set, calls ssh.dispose() and awaits it;
\* otherwise returns at once.
Disconnect(s) ==
  /\ ops < MaxOps
  /\ ops' = ops + 1
  /\ IF connected[s]
     THEN /\ pending' = Append(pending, Task("disconnect", s, TRUE))
          /\ UNCHANGED lastOp
     ELSE /\ lastOp' = OpResult("disconnect", s, 0, FALSE, "", <<>>, 0, NoRemote)
          /\ UNCHANGED pending
  /\ UNCHANGED <<connected, ssh, connections>>
  /\ UNCHANGED added
  /\ UNCHANGED dbVars

\* The index in todo of the first session whose flag is set, 0 when none.
FirstConnected(todo, flags) ==
  LET hit == {i \in 1..Len(todo) : flags[todo[i]]}
  IN  IF hit = {} THEN 0 ELSE SeqMin(hit)

\* The loop of disconnectAll over the sessions todo, up to its next await
\* on a dispose: disconnect() of a session whose flag is clear returns at
\* once.  After the last session the map is cleared.
Drain(todo, flags, others) ==
  LET i == FirstConnected(todo, flags)
  IN  IF i = 0
      THEN /\ connections' = <<>>
           /\ pending' = others
           /\ lastOp' = OpResult("disconnectAll", 0, 0, FALSE, "", <<>>, 0,
                                 NoRemote)
      ELSE /\ pending' = Append(others,
                            [Task("disconnectAll", todo[i], TRUE)
                               EXCEPT !.todo = SubSeq(todo, i + 1, Len(todo))])
           /\ UNCHANGED <<connections, lastOp>>

\* disconnectAll()
DisconnectAll ==
  /\ ops < MaxOps
  /\ ops' = ops + 1
  /\ Drain([i \in 1..Len(connections) |-> connections[i].conn], connected,
           pending)
  /\ UNCHANGED <<connected, ssh>>
  /\ UNCHANGED added
  /\ UNCHANGED dbVars

\* ssh.dispose() resolves (ok) or rejects, in disconnect() or in the
\* disconnect() that disconnectAll awaits.  A rejection leaves the flag set
\* and ends the caller with the error.
DisposeSettled(i, ok) ==
  /\ pending[i].op \in {"disconnect", "disconnectAll"}
  /\ LET t == pending[i]
         flags == IF ok THEN [connected EXCEPT ![t.conn] = FALSE] ELSE connected
     IN  /\ connected' = flags
         /\ ssh' = IF ok
                   THEN [ssh EXCEPT ![t.conn] =
                           [open |-> FALSE, disposed |-> @.disposed + 1]]
                   ELSE ssh
         /\ IF ok /\ t.op = "disconnectAll"
            THEN Drain(t.todo, flags, Without(pending, i))
            ELSE /\ lastOp' = OpResult(t.op, t.conn, 0, t.was,
                                       IF ok THEN "" ELSE "DISPOSE_FAILED",
                                       t.todo, 0, NoRemote)
                 /\ pending' = Without(pending, i)
                 /\ UNCHANGED connections
  /\ UNCHANGED ops
  /\ UNCHANGED added
  /\ UNCHANGED dbVars

Telemetry == {"getMetrics", "getProcesses", "getLogs"}

\* The number of commands an operation awaits.
Commands(op) == IF op = "getMetrics" THEN Len(MetricCommands) ELSE 1

\* A getLogs without the check of the flag.
Guarded_LogsUnchecked(op) == op # "getLogs"

\* if (!this.connected) throw new Error('Not connected to server')
Guarded(op) == op \in Telemetry

\* getProcesses and getLogs catch what a command throws and return [].
Swallows(op) == op \in {"getProcesses", "getLogs"}

Result(op, remote) ==
  CASE op = "getMetrics" -> getMetrics(remote.metrics)
    [] op = "getProcesses" -> getProcesses(remote.listing)
    [] op = "getLogs" -> getLogs(remote.journal)

\* The start of getMetrics, getProcesses or getLogs: the check of the flag,
\* then the first command.
Call(op, s) ==
  /\ ops < MaxOps
  /\ ops' = ops + 1
  /\ IF Guarded(op) /\ ~connected[s]
     THEN /\ lastOp' = OpResult(op, s, 0, FALSE, "NOT_CONNECTED", <<>>, 0,
                                NoRemote)
          /\ UNCHANGED pending
     ELSE /\ pending' = Append(pending, Task(op, s, connected[s]))
          /\ UNCHANGED lastOp
  /\ UNCHANGED <<connected, ssh, connections>>
  /\ UNCHANGED added
  /\ UNCHANGED dbVars

GetMetrics(s) == Call("getMetrics", s)
GetProcesses(s) == Call("getProcesses", s)
GetLogs(s) == Call("getLogs", s)

\* ssh.execCommand resolves (ok) or rejects; on a transport that is not
\* open it rejects.  After the last command the operation returns what it
\* parsed from the outputs the host printed.
ExecSettled(i, ok, remote) ==
  /\ pending[i].op \in Telemetry
  /\ ok => ssh[pending[i].conn].open
  /\ LET t == pending[i]
         k == t.k + 1
     IN  IF ~ok
         THEN /\ lastOp' = OpResult(t.op, t.conn, 0, t.was,
                                    IF Swallows(t.op) THEN "" ELSE "EXEC_FAILED",
                                    <<>>, k, NoRemote)
              /\ pending' = Without(pending, i)
         ELSE IF k < Commands(t.op)
         THEN /\ pending' = [pending EXCEPT ![i].k = k]
              /\ UNCHANGED lastOp
         ELSE /\ lastOp' = OpResult(t.op, t.conn, 0, t.was, "",
                                    Result(t.op, remote), k, remote)
              /\ pending' = Without(pending, i)
  /\ UNCHANGED <<connected, ssh, connections, ops>>
  /\ UNCHANGED added
  /\ UNCHANGED dbVars

\* The outputs that matter to the step: those of the whole run when the
\* last command resolves, none before.
Printed(i, ok) ==
  IF ok /\ pending[i].k + 1 = Commands(pending[i].op) THEN FewRemotes
  ELSE {NoRemote}

\* connections.get(serverId); 0 stands for undefined.
getConnection(conns, serverId) ==
  LET hit == SelectSeq(conns, LAMBDA e : e.serverId = serverId)
  IN  IF hit = <<>> THEN 0 ELSE hit[1].conn

\* connections.set(serverId, conn): a key that is present keeps its place.
Put(conns, serverId, conn) ==
  IF \E i \in 1..Len(conns) : conns[i].serverId = serverId
  THEN [i \in 1..Len(conns) |->
          IF conns[i].serverId = serverId
          THEN [serverId |-> serverId, conn |-> conn] ELSE conns[i]]
  ELSE Append(conns, [serverId |-> serverId, conn |-> conn])

\* addConnection(serverId, connection)
AddConnection(serverId, s) ==
  /\ ops < MaxOps
  /\ ops' = ops + 1
  /\ connections' = Put(connections, serverId, s)
  /\ added' = added \cup {s}
  /\ lastOp' = OpResult("addConnection", s, serverId, connected[s], "", <<>>,
                        0, NoRemote)
  /\ UNCHANGED <<connected, ssh, pending>>
  /\ UNCHANGED dbVars

\* removeConnection(serverId): conn.disconnect() is called and not awaited,
\* so only its part before the await runs before the entry is deleted and
\* the call returns.
RemoveConnection(serverId) ==
  /\ ops < MaxOps
  /\ ops' = ops + 1
  /\ LET conn == getConnection(connections, serverId)
         was == conn # 0 /\ connected[conn]
     IN  /\ pending' = IF was
                       THEN Append(pending, [Task("disconnect", conn, TRUE)
                                               EXCEPT !.detached = TRUE])
                       ELSE pending
         /\ lastOp' = OpResult("removeConnection", conn, serverId, was, "",
                               <<>>, 0, NoRemote)
  /\ connections' = SelectSeq(connections, LAMBDA e : e.serverId # serverId)
  /\ UNCHANGED <<connected, ssh>>
  /\ UNCHANGED added
  /\ UNCHANGED dbVars

\* The seeded pools: empty, one host, two hosts with a session each, and
\* two hosts that share a session.
PoolSeeds ==
  {<<>>,
   <<[serverId |-> 1, conn |-> 1]>>,
   <<[serverId |-> 1, conn |-> 1], [serverId |-> 2, conn |-> 2]>>,
   <<[serverId |-> 1, conn |-> 1], [serverId |-> 2, conn |-> 1]>>}

\* Sessions that connect() has or has not connected, held by a pool that
\* addConnection has filled.
InitConn ==
  /\ Seeded("online", TRUE)
  /\ connected \in [Sessions -> BOOLEAN]
  /\ ssh = [s \in Sessions |-> [open |-> connected[s], disposed |-> 0]]
  /\ connections \in PoolSeeds
  /\ pending = <<>>
  /\ ops = 0
  /\ added = {connections[i].conn : i \in 1..Len(connections)}
  /\ lastOp = NoOp

NextConn ==
  \/ \E s \in Sessions : Connect(s)
  \/ \E i \in DOMAIN pending, ok \in BOOLEAN : ConnectSettled(i, ok)
  \/ \E s \in Sessions : Disconnect(s)
  \/ DisconnectAll
  \/ \E i \in DOMAIN pending, ok \in BOOLEAN : DisposeSettled(i, ok)
  \/ \E s \in Sessions : GetMetrics(s)
  \/ \E s \in Sessions : GetProcesses(s)
  \/ \E s \in Sessions : GetLogs(s)
  \/ \E i \in DOMAIN pending, ok \in BOOLEAN :
       \E remote \in Printed(i, ok) : ExecSettled(i, ok, remote)
  \/ \E serverId \in PoolIds, s \in Sessions : AddConnection(serverId, s)
  \/ \E serverId \in PoolIds : RemoveConnection(serverId)

SpecConn == InitConn /\ [][NextConn]_vars

\* One telemetry call on a session that no other call overlaps, every
\* command of it resolving: the check of the flag, the commands, the parse.
TelemetryRun(op, s, remote) ==
  /\ ops < MaxRuns
  /\ pending = <<>>
  /\ ops' = ops + 1
  /\ lastOp' = IF Guarded(op) /\ ~connected[s]
               THEN OpResult(op, s, 0, FALSE, "NOT_CONNECTED", <<>>, 0, NoRemote)
               ELSE OpResult(op, s, 0, connected[s], "", Result(op, remote),
                             Commands(op), remote)
  /\ UNCHANGED <<connected, ssh, connections, pending>>
  /\ UNCHANGED added
  /\ UNCHANGED dbVars

\* One connected session and one that never connected.
InitTelemetry ==
  /\ Seeded("online", TRUE)
  /\ connected = [s \in Sessions |-> s = 1]
  /\ ssh = [s \in Sessions |-> [open |-> s = 1, disposed |-> 0]]
  /\ connections = <<>>
  /\ pending = <<>>
  /\ ops = 0
  /\ added = {}
  /\ lastOp = NoOp

NextTelemetry ==
  \E s \in Sessions :
    \/ \E m \in MetricOutputs :
         TelemetryRun("getMetrics", s, Remote(m, <<>>, <<>>))
    \/ \E l \in Listings :
         TelemetryRun("getProcesses", s, Remote(Baseline, l, <<>>))
    \/ \E j \in Journals :
         TelemetryRun("getLogs", s, Remote(Baseline, <<>>, j))

SpecTelemetry == InitTelemetry /\ [][NextTelemetry]_vars

\* Payload objects: empty, one property, two properties in both orders.
Payloads ==
  {<<>>, << <<<<"a">>, <<"x">>>> >>, << <<<<"a">>, <<"y">>>> >>,
   << <<<<"a">>, <<"x">>>>, <<<<"b">>, <<"y">>>> >>,
   << <<<<"b">>, <<"y">>>>, <<<<"a">>, <<"x">>>> >>}

Secrets == {<<>>, <<"k">>, <<"q">>}

\* Signatures presented with a payload: the signer's, every text that
\* differs from it in its first or in its last character, prefixes and
\* extensions of it, and the empty text.
Signatures(payload, secret) ==
  LET good == generateWebhookSignature(payload, secret)
  IN  {good, <<>>, <<good[1]>>, good \o <<"0">>}
        \cup {<<Hex[i], good[2]>> : i \in {1, 11, 16}}
        \cup {<<good[1], Hex[i]>> : i \in {1, 11, 16}}

\* The receiver checks a signature over the serialized payload.
Verify(payload, signature, secret) ==
  /\ ops < MaxRuns
  /\ ops' = ops + 1
  /\ lastOp' = OpResult("verifyWebhookSignature", 0, 0, TRUE, "",
                        verifyWebhookSignature(Stringify(payload), signature,
                                               secret),
                        0, [payload |-> payload, signature |-> signature,
                            secret |-> secret])
  /\ UNCHANGED <<connected, ssh, connections, pending>>
  /\ UNCHANGED added
  /\ UNCHANGED dbVars

NextSign ==
  \E payload \in Payloads, secret \in Secrets :
    \E signature \in Signatures(payload, secret) :
      Verify(payload, signature, secret)

SpecSign == Init /\ [][NextSign]_vars

----------------------------------------------------------------------------
(* Observations of the last invocation, read off the stored tables and the *)
(* request alone.                                                          *)

IsEvent == last.op = "handleEvent"

Rows(table) == {table[i] : i \in 1..Len(table)}

\* The rows appended to a table by the last invocation.
Added(table, before) == SubSeq(table, Len(before) + 1, Len(table))

\* The user whose active key the request presented; 0 when the key is not
\* stored, is inactive, or belongs to no user.
Caller ==
  LET mine == {k \in Rows(pre.apiKeys) :
                 k.key = last.input.apiKey /\ k.active /\ k.userId \in Users}
  IN  IF mine = {} THEN 0 ELSE (CHOOSE k \in mine : TRUE).userId

\* The server the request names, as it was before the invocation.
Target == {h \in Rows(pre.servers) : h.id = last.input.serverId}

TargetOwnedByCaller == \E h \in Target : h.createdBy = Caller
TargetOwnedByOther == \E h \in Target : h.createdBy # Caller

IsNumberIn0To100(v) == v.t = "num" /\ 0 <= v.n /\ v.n <= 100

Percentages == <<"cpuUsage", "ramUsagePercent", "diskUsagePercent">>
MetricTypeOf == ("cpuUsage" :> "cpu") @@ ("ramUsagePercent" :> "ram")
                @@ ("diskUsagePercent" :> "disk")

MissingOrEmpty(v) == v.t = "undef" \/ (v.t = "str" /\ v.s = "")

\* The numeric field of the snapshot that each command alone decides, and
\* the text fields.
NumericField ==
  [cpu |-> "cpuUsage", ram |-> "ramUsagePercent", totalRam |-> "totalRam",
   disk |-> "diskUsagePercent", totalDisk |-> "totalDisk",
   conn |-> "activeConnections", cpuCores |-> "cpuCores"]
TextField ==
  [uptime |-> "uptime", os |-> "osVersion", kernel |-> "kernelVersion",
   cpuModel |-> "cpuModel"]

\* A line of the process listing with the five fields pid, user, cpu, mem
\* and command, of which pid, cpu and mem are numbers.
WellFormed(line) ==
  LET parts == Fields(line)
  IN  /\ Len(parts) >= 5
      /\ \A i \in {1, 3, 4} : parts[i] # <<>> /\ Number(parts[i]) # NaN

\* The lines of a text that are not blank.
NonBlankLines(text) ==
  SelectSeq(Split(text, "\n"), LAMBDA l : Trim(l) # <<>>)

\* A text that does not begin, after white space and a sign, with a digit.
NoNumber(text) ==
  LET t == TrimStart(text)
      u == IF t # <<>> /\ Head(t) \in {"-", "+"} THEN Tail(t) ELSE t
  IN  u = <<>> \/ Head(u) \notin DOMAIN Digits

----------------------------------------------------------------------------
(* Claims.                                                                 *)

\* C1: every call of handleEvent, whatever its outcome and also when a
\* persistence call fails, has appended exactly one webhook log row when it
\* returns or rethrows.
C1_ExactlyOneAuditRecord ==
  IsEvent => Len(webhookLogs) = Len(pre.webhookLogs) + 1

\* C2: a call whose key is not stored or is inactive is rejected as
\* UNAUTHORIZED before processWebhook is entered, and servers, metric
\* snapshots and alerts are as before.
C2_BadKeyRejected ==
  (IsEvent /\ ~\E k \in Rows(pre.apiKeys) : k.key = last.input.apiKey /\ k.active)
    => /\ last.err = "UNAUTHORIZED"
       /\ ~last.entered
       /\ servers = pre.servers
       /\ serverMetrics = pre.serverMetrics
       /\ alerts = pre.alerts

C2_Witness ==
  /\ IsEvent
  /\ last.input.apiKey = "sk_3"
  /\ last.input.action = "delete_server"
  /\ \E k \in Rows(pre.apiKeys) : k.key = "sk_3" /\ ~k.active
  /\ last.err = "UNAUTHORIZED"

\* C3: delete_server, start_server, stop_server, restart_server and
\* update_metrics sent for an existing server by a caller who is not its
\* owner fail as FORBIDDEN, and the server row (status and lastSeen
\* included), the metric snapshots and the alerts are as before.
C3_NonOwnerForbidden ==
  (/\ IsEvent
   /\ Caller # 0
   /\ last.input.action \in Actions \ {"create_server"}
   /\ TargetOwnedByOther)
    => /\ last.err = "FORBIDDEN"
       /\ \A h \in Target : h \in Rows(servers)
       /\ serverMetrics = pre.serverMetrics
       /\ alerts = pre.alerts

C3_Witness ==
  /\ IsEvent
  /\ Caller = 2
  /\ last.input.action = "update_metrics"
  /\ \E h \in Target : h.createdBy = 1 /\ h \in Rows(servers)
  /\ last.err = "FORBIDDEN"

\* C4: in every operation, a server row is removed only when the caller of
\* the operation is the server's owner.
C4_DeletedOnlyByOwner ==
  \A h \in Rows(pre.servers) :
    (~\E g \in Rows(servers) : g.id = h.id) => h.createdBy = last.user

\* C5: an update_metrics by the owner with three valid percentages creates
\* one alert per percentage above 90, and no other: each is critical and
\* has the metricType of the percentage that fired.
C5_OneAlertPerThreshold ==
  (/\ IsEvent
   /\ last.input.action = "update_metrics"
   /\ Caller # 0
   /\ TargetOwnedByCaller
   /\ \A i \in 1..3 : IsNumberIn0To100(last.input.data[Percentages[i]]))
    => LET fired == {i \in 1..3 : last.input.data[Percentages[i]].n > 90}
           new == Added(alerts, pre.alerts)
       IN  /\ Len(new) = Cardinality(fired)
           /\ {new[j].metricType : j \in 1..Len(new)}
                = {MetricTypeOf[Percentages[i]] : i \in fired}
           /\ \A j \in 1..Len(new) : new[j].severity = "critical"

\* C6: an update_metrics in which one of the three percentages is not a
\* number in [0,100] fails as BAD_REQUEST and stores no metric snapshot.
C6_NonNumberRejected ==
  (/\ IsEvent
   /\ last.input.action = "update_metrics"
   /\ Caller # 0
   /\ TargetOwnedByCaller
   /\ \E i \in 1..3 : ~IsNumberIn0To100(last.input.data[Percentages[i]]))
    => /\ last.err = "BAD_REQUEST"
       /\ serverMetrics = pre.serverMetrics

\* C7: an update_metrics that returns an error has stored no metric
\* snapshot and no alert and has not changed lastSeen.
C7_FailedUpdateWritesNothing ==
  (IsEvent /\ last.input.action = "update_metrics" /\ last.err # "")
    => /\ serverMetrics = pre.serverMetrics
       /\ alerts = pre.alerts
       /\ servers = pre.servers

\* C8: a create_server with non-empty name, hostname and ipAddress creates
\* exactly one server, online and owned by the caller whatever data.userId
\* says, records exactly one all-zero metric snapshot for that server, and
\* returns that server.
C8_CreateReturnsCreated ==
  (/\ IsEvent
   /\ last.input.action = "create_server"
   /\ Caller # 0
   /\ ~MissingOrEmpty(last.input.data.name)
   /\ ~MissingOrEmpty(last.input.data.hostname)
   /\ ~MissingOrEmpty(last.input.data.ipAddress))
    => LET new == Added(servers, pre.servers)
           snap == Added(serverMetrics, pre.serverMetrics)
       IN  /\ last.err = ""
           /\ Len(new) = 1
           /\ new[1].status = "online"
           /\ new[1].createdBy = Caller
           /\ new[1].id \notin {h.id : h \in Rows(pre.servers)}
           /\ Len(snap) = 1
           /\ snap[1] = [NoMetric EXCEPT !.id = snap[1].id,
                                         !.serverId = new[1].id,
                                         !.timestamp = now]
           /\ last.ret.server = new[1]

\* C9: a create_server in which name, hostname or ipAddress is missing or
\* empty fails as BAD_REQUEST and creates no server and no metric snapshot.
C9_MissingFieldRejected ==
  (/\ IsEvent
   /\ last.input.action = "create_server"
   /\ Caller # 0
   /\ \/ MissingOrEmpty(last.input.data.name)
      \/ MissingOrEmpty(last.input.data.hostname)
      \/ MissingOrEmpty(last.input.data.ipAddress))
    => /\ last.err = "BAD_REQUEST"
       /\ servers = pre.servers
       /\ serverMetrics = pre.serverMetrics

C9_Witness ==
  /\ IsEvent
  /\ last.input.action = "create_server"
  /\ Caller = 1
  /\ last.input.data.name = Str("A")
  /\ last.input.data.hostname = Str("h")
  /\ last.input.data.ipAddress = Undef
  /\ last.err = "BAD_REQUEST"

C11_UnknownActionRejected ==
  (IsEvent /\ Caller # 0 /\ last.input.action \notin Actions)
    => LET new == Added(webhookLogs, pre.webhookLogs)
       IN  /\ last.err = "BAD_REQUEST"
           /\ servers = pre.servers
           /\ serverMetrics = pre.serverMetrics
           /\ alerts = pre.alerts
           /\ Len(new) = 1
           /\ new[1].status = "failed"
           /\ new[1].action = last.input.action

C11_Witness ==
  /\ IsEvent
  /\ Caller = 1
  /\ last.input.action = "reboot_server"
  /\ last.input.serverId = 1
  /\ last.err = "BAD_REQUEST"
  /\ Len(webhookLogs) = Len(pre.webhookLogs) + 1

\* C12: a call that fails before a user is resolved (the key is not stored,
\* is inactive, or belongs to a user that does not exist) writes its webhook
\* log row with userId 0, never with the id of a user.
C12_SentinelActor ==
  (IsEvent /\ Caller = 0)
    => LET new == Added(webhookLogs, pre.webhookLogs)
       IN  /\ last.err # ""
           /\ Len(new) >= 1
           /\ \A j \in 1..Len(new) :
                new[j].userId = 0 /\ new[j].userId \notin Users

C12_Witness ==
  /\ IsEvent
  /\ last.input.apiKey = "sk_o"
  /\ \E k \in Rows(pre.apiKeys) :
       k.key = "sk_o" /\ k.active /\ k.userId \notin Users
  /\ last.err = "UNAUTHORIZED"
  /\ webhookLogs[Len(webhookLogs)].userId = 0
  /\ Len(webhookLogs) = Len(pre.webhookLogs) + 1

C14_PercentagesInRange ==
  (lastOp.op = "getMetrics" /\ lastOp.err = "")
    => \A f \in {"cpuUsage", "ramUsagePercent", "diskUsagePercent"} :
         0 <= lastOp.ret[f] /\ lastOp.ret[f] <= 100

\* C15: connect() never throws.  When ssh.connect fails it returns false
\* and the session is not connected afterwards, whatever it was before; when
\* ssh.connect succeeds it returns true and the session is connected.
C15_ConnectNeverThrows ==
  [][\A i \in DOMAIN pending, ok \in BOOLEAN :
       ConnectSettled(i, ok)
         => /\ lastOp'.op = "connect"
            /\ lastOp'.err = ""
            /\ lastOp'.ret = ok
            /\ connected'[pending[i].conn] = ok]_vars

C15_Witness ==
  /\ lastOp.op = "connect"
  /\ lastOp.was
  /\ lastOp.err = ""
  /\ lastOp.ret = FALSE
  /\ ~connected[lastOp.conn]

\* C16: disconnect() is idempotent.  A disconnect() that has returned
\* leaves the session not connected; on a session that is not connected it
\* returns without error and without touching the transport; and after one
\* connect(), however many disconnect() calls follow and however they
\* overlap, the transport has been disposed once and no more.
C16_DisposedOnce ==
  /\ \A s \in Sessions : ssh[s].disposed <= 1
  /\ (lastOp.op = "disconnect" /\ lastOp.err = "")
       => /\ ~connected[lastOp.conn]
          /\ lastOp.was => ssh[lastOp.conn].disposed = 1
  /\ (lastOp.op = "disconnect" /\ ~lastOp.was) => lastOp.err = ""

\* C17: getMetrics, getProcesses and getLogs called on a session that is
\* not connected fail with the not-connected error and issue no command.
C17_NotConnectedFails ==
  /\ (lastOp.op \in Telemetry /\ ~lastOp.was)
       => lastOp.err = "NOT_CONNECTED" /\ lastOp.execs = 0
  /\ \A i \in DOMAIN pending : pending[i].op \in Telemetry => pending[i].was

C17_Witness ==
  /\ lastOp.op = "getLogs"
  /\ ~lastOp.was
  /\ lastOp.err = "NOT_CONNECTED"
  /\ lastOp.execs = 0
  /\ ssh[lastOp.conn].disposed = 1
  /\ ~connected[lastOp.conn]

\* C18: on a connected session getMetrics returns a snapshot whatever one
\* command prints: a numeric field whose command printed no number is 0, a
\* text field is what its command printed, trimmed, and every field whose
\* command printed what a healthy host prints has the healthy value.
C18_OneBadCommand ==
  (lastOp.op = "getMetrics" /\ lastOp.was)
    => LET out == lastOp.remote.metrics
           healthy == getMetrics(Baseline)
       IN  /\ lastOp.err = ""
           /\ \A c \in DOMAIN NumericField :
                /\ NoNumber(out[c]) => lastOp.ret[NumericField[c]] = 0
                /\ out[c] = Baseline[c]
                     => lastOp.ret[NumericField[c]] = healthy[NumericField[c]]
           /\ \A c \in DOMAIN TextField :
                /\ out[c] = <<>> => lastOp.ret[TextField[c]] = <<>>
                /\ out[c] = Baseline[c]
                     => lastOp.ret[TextField[c]] = healthy[TextField[c]]

\* C19: when removeConnection(serverId) has returned, getConnection of that
\* id is absent and the session that was mapped is not connected; on an id
\* without a session it returns without error.
C19_RemovedIsDisconnected ==
  lastOp.op = "removeConnection"
    => /\ lastOp.err = ""
       /\ getConnection(connections, lastOp.serverId) = 0
       /\ lastOp.conn # 0 => ~connected[lastOp.conn]

\* C20: when disconnectAll() has ended, by returning or by throwing, the
\* pool has no entry and no session of the pool was left without a
\* disconnect attempt: every session the loop did not reach is not
\* connected.
C20_DisconnectAllDrains ==
  lastOp.op = "disconnectAll"
    => /\ connections = <<>>
       /\ \A i \in 1..Len(lastOp.ret) : ~connected[lastOp.ret[i]]

\* C21: at no time are two calls inside a command-issuing operation
\* (getMetrics, getProcesses, getLogs) of the same session of the pool.
C21_SessionSerialized ==
  \A i \in DOMAIN pending, j \in DOMAIN pending :
    (/\ i # j
     /\ pending[i].op \in Telemetry
     /\ pending[j].op \in Telemetry
     /\ \E serverId \in PoolIds :
          getConnection(connections, serverId) = pending[i].conn)
      => pending[i].conn # pending[j].conn

\* C22: while removeConnection or disconnectAll is disposing the transport of
\* a session, getConnection returns that session for no host and no
\* telemetry operation is in progress on it.
C22_RemovalExcludesUse ==
  \A i \in DOMAIN pending :
    (pending[i].op = "disconnectAll"
       \/ (pending[i].op = "disconnect" /\ pending[i].detached))
      => /\ \A serverId \in PoolIds :
              getConnection(connections, serverId) # pending[i].conn
         /\ \A j \in DOMAIN pending :
              pending[j].op \in Telemetry => pending[j].conn # pending[i].conn

\* C29: when no call is in progress, every session that addConnection was
\* ever given and that getConnection returns for no host is not connected;
\* so is a session that a later addConnection under the same host replaced.
C29_DroppedIsDisconnected ==
  pending = <<>>
    => \A s \in added :
         (\A serverId \in PoolIds : getConnection(connections, serverId) # s)
           => ~connected[s]

\* C25: getLogs returns one record for each journal line that parses as a
\* structured record and none for any other line, in the order of the
\* lines; the level of a record is critical for priority 0, error for 1,
\* warning for 2 and info for any other or no priority.  A structured
\* record is read both ways: a line that is a JSON object, or any line
\* JSON.parse accepts.
C25_LogsParsed ==
  (lastOp.op = "getLogs" /\ lastOp.was)
    => \E parsing \in {{"object"}, {"object", "value", "null"}} :
         LET entries == SelectSeq(lastOp.remote.journal,
                                  LAMBDA l : l.kind \in parsing)
         IN  /\ lastOp.err = ""
             /\ Len(lastOp.ret) = Len(entries)
             /\ \A i \in 1..Len(entries) :
                  /\ lastOp.ret[i].message = entries[i].MESSAGE
                  /\ lastOp.ret[i].level =
                       (CASE entries[i].PRIORITY = "0" -> "critical"
                          [] entries[i].PRIORITY = "1" -> "error"
                          [] entries[i].PRIORITY = "2" -> "warning"
                          [] OTHER -> "info")

\* C26: getProcesses never fails on a listing, returns one record for each
\* well-formed line, and none for a line that lacks one of the five fields
\* or whose pid, cpu or mem is not a number.
C26_MalformedSkipped ==
  (lastOp.op = "getProcesses" /\ lastOp.was)
    => LET lines == NonBlankLines(lastOp.remote.listing)
           good == SelectSeq(lines, WellFormed)
       IN  /\ lastOp.err = ""
           /\ Len(lastOp.ret) = Len(good)
           /\ \A i \in 1..Len(good) :
                i <= Len(lastOp.ret)
                  => lastOp.ret[i].pid = Number(Fields(good[i])[1]).n

C28_AuditAttributed ==
  (IsEvent /\ Caller # 0)
    => LET mine(table) == SelectSeq(table, LAMBDA row : row.userId = Caller)
       IN  /\ \E j \in DOMAIN Added(webhookLogs, pre.webhookLogs) :
                Added(webhookLogs, pre.webhookLogs)[j].userId = Caller
           /\ Len(mine(webhookLogs)) = Len(mine(pre.webhookLogs)) + 1

\* C24: servers.create returns the server row inserted by that call: it has
\* the name, hostname and ipAddress of the input and status online, and
\* getById of its id returns that record.
C24_CreateReturnsInserted ==
  last.op = "servers.create"
    => LET new == Added(servers, pre.servers)
           got == getServerById(Tables, 0, NoFault, last.ret.server.id)
       IN  /\ last.err = ""
           /\ Len(new) = 1
           /\ last.ret.server = new[1]
           /\ Str(last.ret.server.name) = last.input.data.name
           /\ Str(last.ret.server.hostname) = last.input.data.hostname
           /\ Str(last.ret.server.ipAddress) = last.input.data.ipAddress
           /\ last.ret.server.status = "online"
           /\ got.val = last.ret.server

\* C27: the outcome of handleEvent does not depend on the signature field.
\* The same request from the same stored state, with the field absent,
\* with the signer's signature and with another text, returns the same
\* result or error and leaves the same servers, metrics and alerts.
C27_SignatureIgnored ==
  IsEvent
    => \A g \in SignatureFields :
         LET other == handleEvent(pre, last.fault, last.tb, sqlStrict, now,
                                  [last.input EXCEPT !.signature = g])
         IN  /\ other.err = last.err
             /\ other.val = last.ret
             /\ other.d.servers = servers
             /\ other.d.serverMetrics = serverMetrics
             /\ other.d.alerts = alerts

\* A request with a signature that is not the signer's has stopped the
\* caller's own server.
C27_Witness ==
  /\ IsEvent
  /\ last.input.signature = Str("bad")
  /\ last.input.action = "stop_server"
  /\ Caller # 0
  /\ last.err = ""
  /\ servers # pre.servers
  /\ last.ret.server.status = "offline"

\* C30: whatever runs between the ownership check and the update of a
\* start, stop or restart request, a request that returns success returns
\* a server that is stored, under the id of the request and with the
\* status the action sets.
C30_SuccessHasStoredServer ==
  (/\ IsEvent
   /\ last.input.action \in {"start_server", "stop_server", "restart_server"}
   /\ last.err = "")
    => \E h \in Rows(servers) :
         /\ h = last.ret.server
         /\ h.id = last.input.serverId
         /\ h.status = IF last.input.action = "stop_server" THEN "offline"
                        ELSE "online"

====
